---- MODULE Spec2Model ----
(***************************************************************************)
(* Model of stanity's PSIS pipeline: psis.psislw / gpdfitnew / gpinv /     *)
(* sumlogs / psisloo and psisloo.loo_compare.                              *)
(*                                                                         *)
(* Numbers.  A float is modelled in exact arithmetic as a pair <<n, d>>    *)
(* with d >= 0 and gcd(n, d) = 1:                                          *)
(*     <<n, d>>, d > 0   the rational n/d                                  *)
(*     <<1, 0>>          +infinity        <<-1, 0>>   -infinity            *)
(*     <<0, 0>>          not-a-number                                      *)
(* A log-value v (a log-weight, a log-likelihood) is the triple            *)
(* <<n, d, "ln">> of the number exp(v) = <<n, d>>: a finite log-value has  *)
(* a positive rational, the log-value -inf has <<0, 1>>, +inf has <<1, 0>>.*)
(* np.exp takes a log-value to its number and np.log a number to its       *)
(* log-value; subtracting log-values divides their numbers, adding them    *)
(* multiplies, comparing them compares the numbers.                        *)
(***************************************************************************)
EXTENDS Integers, Sequences, FiniteSets, TLC

\* ------------------------------------------------------------------ numbers

NaN == <<0, 0>>
PInf == <<1, 0>>
NInf == <<-1, 0>>
Zero == <<0, 1>>
One == <<1, 1>>

Abs(a) == IF a < 0 THEN -a ELSE a

Sgn(a) == IF a < 0 THEN -1 ELSE IF a > 0 THEN 1 ELSE 0

RECURSIVE Gcd(_, _)
Gcd(a, b) == IF b = 0 THEN a ELSE Gcd(b, a % b)

\* the canonical pair of n/d, for d >= 0
Norm(n, d) ==
    IF d = 0 THEN <<Sgn(n), 0>>
    ELSE LET g == Gcd(Abs(n), d) IN <<n \div g, d \div g>>

IsNaN(a) == a = NaN

IsFinite(a) == a[2] > 0

\* IEEE multiplication: 0 * inf and anything with not-a-number give
\* not-a-number; common factors are cancelled before the products are taken
RMul(a, b) ==
    IF a[2] = 0 \/ b[2] = 0 THEN <<Sgn(a[1]) * Sgn(b[1]), 0>>
    ELSE LET g1 == Gcd(Abs(a[1]), b[2])
             g2 == Gcd(Abs(b[1]), a[2])
         IN  Norm((a[1] \div g1) * (b[1] \div g2), (a[2] \div g2) * (b[2] \div g1))

\* IEEE addition: inf + (-inf) and anything with not-a-number give not-a-number
RAdd(a, b) ==
    IF a[2] = 0 /\ b[2] = 0 THEN (IF a = b THEN a ELSE NaN)
    ELSE IF a[2] = 0 THEN a
    ELSE IF b[2] = 0 THEN b
    ELSE LET g == Gcd(a[2], b[2])
         IN  Norm(a[1] * (b[2] \div g) + b[1] * (a[2] \div g), (a[2] \div g) * b[2])

RNeg(a) == <<-a[1], a[2]>>

RSub(a, b) == RAdd(a, RNeg(b))

\* IEEE division of a by b (zeros carry no sign: x/0 is +inf for x > 0);
\* 0/0 and inf/inf give not-a-number
RDiv(a, b) ==
    RMul(a, IF b[1] < 0 THEN <<-b[2], -b[1]>> ELSE <<b[2], b[1]>>)

\* a < b as floats: false as soon as one side is not-a-number
RLt(a, b) ==
    /\ ~IsNaN(a)
    /\ ~IsNaN(b)
    /\ IF a[2] = 0 \/ b[2] = 0
       THEN (IF a[2] = 0 /\ b[2] = 0 THEN a[1] < b[1]
             ELSE IF a[2] = 0 THEN a[1] < 0 ELSE b[1] > 0)
       ELSE LET g == Gcd(a[2], b[2])
            IN  a[1] * (b[2] \div g) < b[1] * (a[2] \div g)

RGt(a, b) == RLt(b, a)

RLe(a, b) == ~IsNaN(a) /\ ~IsNaN(b) /\ ~RLt(b, a)

\* --------------------------------------------------------------- bounds

\* input weights exp(lw) of the tall arrays are 1..MaxW
MaxW == 3

\* rows of the tall arrays; a tail of more than 4 needs 6 rows
MaxRows == 6

\* columns of a 2-D array
MaxCols == 2

\* rows of the small arrays, whose entries are free
SmallRows == 2

\* 1/np.finfo(float).tiny, scaled: cutoffmin is the log of a positive number
\* below every positive weight the bounded inputs can form
TinyInv == 1048576

\* ------------------------------------------------------- numpy helpers

Range(s) == {s[j] : j \in DOMAIN s}

\* number of elements of an array of the given shape
RECURSIVE Size(_)
Size(shape) == IF shape = << >> THEN 1 ELSE Head(shape) * Size(Tail(shape))

\* np.exp of a log-value: the number it is the logarithm of
Exp(a) == <<a[1], a[2]>>

\* np.log of a number: its log-value; the log of a negative number is
\* not-a-number
Log(r) == IF r[1] < 0 THEN <<0, 0, "ln">> ELSE <<r[1], r[2], "ln">>

\* a - b, a + b and -a of log-values
LSub(a, b) == Log(RDiv(Exp(a), Exp(b)))

LAdd(a, b) == Log(RMul(Exp(a), Exp(b)))

LNeg(a) == Log(RDiv(One, Exp(a)))

\* a > b of log-values
LGt(a, b) == RGt(Exp(a), Exp(b))

LIsNaN(a) == IsNaN(Exp(a))

\* np.max of a 1-D array of log-values: not-a-number as soon as one element is
NpMax(x) ==
    IF \E j \in DOMAIN x : LIsNaN(x[j]) THEN Log(NaN)
    ELSE CHOOSE v \in Range(x) : \A u \in Range(x) : ~LGt(u, v)

\* np.argsort of a short 1-D array of log-values without not-a-number
\* (insertion sort, which keeps equal elements in index order), as 1-based
\* indices
ArgSort(x) ==
    LET before(a, b) == LGt(x[b], x[a]) \/ (x[a] = x[b] /\ a < b)
        rank(a) == 1 + Cardinality({b \in DOMAIN x : before(b, a)})
    IN  [r \in DOMAIN x |-> CHOOSE a \in DOMAIN x : rank(a) = r]

\* np.percentile(x, q) of log-values with linear interpolation; q is an
\* integer percentage.  Defined where the rank (n-1)q/100 is whole or its two
\* neighbours are equal (an interpolated log-value has no rational number).
Percentile(x, q) ==
    IF \E j \in DOMAIN x : LIsNaN(x[j]) THEN Log(NaN)
    ELSE LET s == ArgSort(x)
             pos == (Len(x) - 1) * q
             lo == pos \div 100
             hi == IF lo + 1 < Len(x) THEN lo + 1 ELSE lo
         IN  CASE pos % 100 = 0 -> x[s[lo + 1]]
               [] x[s[lo + 1]] = x[s[hi + 1]] -> x[s[lo + 1]]

\* Python's builtin max(a, b) of two log-values: b only if b > a
PyMax(a, b) == IF LGt(b, a) THEN b ELSE a

\* sum of a sequence of numbers
RECURSIVE RSum(_)
RSum(s) == IF s = << >> THEN Zero ELSE RAdd(Head(s), RSum(Tail(s)))

\* sumlogs without adding the maximum back (line 347 dropped)
sumlogsNoMax(x) ==
    LET maxx == NpMax(x)
        xnorm == [j \in DOMAIN x |-> Exp(LSub(x[j], maxx))]
    IN  Log(RSum(xnorm))

\* sumlogs(x) of a 1-D array of log-values (axis=None)
sumlogs(x) ==
    LET maxx == NpMax(x)
        xnorm == [j \in DOMAIN x |-> Exp(LSub(x[j], maxx))]
        out == Log(RSum(xnorm))
    IN  LAdd(out, maxx)

\* ----------------------------------------------------------------- gpinv

\* 1/np.finfo(float).eps, scaled: the only k the bounded fits can put below
\* eps in magnitude is 0
EpsInv == 1048576

\* r ** e for a number r and an integer e
RECURSIVE RPow(_, _)
RPow(r, e) ==
    IF e < 0 THEN RDiv(One, RPow(r, -e))
    ELSE IF e = 0 THEN One
    ELSE RMul(r, RPow(r, e - 1))

\* c * a for a log-value a and a whole number c
LScale(a, c) == Log(RPow(Exp(a), c[1]))

\* BelowEps with the comparison never true: every k takes the general formula
BelowEpsNever(k) == FALSE

\* abs(k) < eps
BelowEps(k) == IsFinite(k) /\ Abs(k[1]) * EpsInv < k[2]

\* one element of gpinv for 0 < p < 1 and abs(k) < eps: sigma * -log1p(-p),
\* a log-value (sigma whole)
gpinvExpLimit(p, sigma) == LScale(LNeg(Log(RSub(One, p))), sigma)

\* one element of gpinv for 0 < p < 1 otherwise:
\* sigma * expm1(-k * log1p(-p)) / k  (k whole)
gpinvGeneral(p, k, sigma) ==
    RMul(RDiv(RSub(Exp(LScale(Log(RSub(One, p)), RNeg(k))), One), k), sigma)

\* gpinv(p, k, sigma) for a 1-D array p of probabilities
gpinv(p, k, sigma) ==
    LET ok(j) == RGt(p[j], Zero) /\ RLt(p[j], One)
        inner(j) == IF BelowEps(k) THEN gpinvExpLimit(p[j], sigma)
                    ELSE gpinvGeneral(p[j], k, sigma)
    IN  IF RLe(sigma, Zero) THEN [j \in DOMAIN p |-> NaN]
        ELSE IF \A j \in DOMAIN p : ok(j) THEN [j \in DOMAIN p |-> inner(j)]
        ELSE [j \in DOMAIN p |->
                 IF p[j] = One
                 THEN (IF RLe(Zero, k) THEN PInf ELSE RDiv(RNeg(sigma), k))
                 ELSE IF p[j] = Zero THEN Zero
                 ELSE IF ok(j) THEN inner(j)
                 ELSE RMul(NaN, sigma)]

\* ------------------------------------------------------------- gpdfitnew

\* the input check of gpdfitnew on a 1-D array x
gpdfitnewInvalid(x) == Len(x) <= 1

\* the estimates (k, sigma) gpdfitnew can return.  Its grid search over
\* log1p and exp has no exact rational form; the model draws the pair from
\* valid fits (sigma > 0, whole k of either sign) and a degenerate one
\* (sigma <= 0).
GpdFits == {<<<<-1, 1>>, One>>, <<One, One>>, <<One, Zero>>}

\* ------------------------------------------------------------------ state

VARIABLES
    op,            \* the entry point the caller uses
    pc,            \* position in the running function
    err,           \* the exception raised, "" if none
    heap,          \* array buffers: heap[b] is the flat data of buffer b
    arg,           \* the caller's array
    orig,          \* the caller's array data at the time of the call
    lw, wcpp, wtrunc, overwrite_lw,         \* psislw's parameters
    lw_out, n, m, kss, i,                   \* psislw's locals
    loc,           \* psislw's locals of the current column
    xshift,        \* the current column right after line 146
    ret,           \* psislw's return value
    log_lik, kwargs, loo_ret,               \* psisloo
    passed,        \* the keyword arguments as the caller passed them
    psisloo1, psisloo2, elpd_diff,          \* loo_compare
    gp,            \* a call of gpinv: its arguments p, k, sigma and result x
    FIT_CACHE,     \* fit.py's cache: model_code -> the cached fit
    calls,         \* the running calls of fit, one per caller
    stan_calls     \* the calls of pystan.stan made so far; a fit is its index

vars == <<op, pc, err, heap, arg, orig, lw, wcpp, wtrunc, overwrite_lw,
          lw_out, n, m, kss, i, loc, xshift, ret, log_lik, kwargs, loo_ret,
          passed, psisloo1, psisloo2, elpd_diff, gp, FIT_CACHE, calls,
          stan_calls>>

lwVars == <<lw, wcpp, wtrunc, overwrite_lw>>

looVars == <<log_lik, kwargs, loo_ret, passed>>

cmpVars == <<psisloo1, psisloo2, elpd_diff>>

gpVars == <<gp>>

fitVars == <<FIT_CACHE, calls, stan_calls>>

None == << >>

\* np.empty: an element not yet written
Unset == <<0, 0, "empty">>

NoLoc == [xcutoff |-> None, expxcutoff |-> None, tailinds |-> None,
          x2 |-> None, n2 |-> 0, x2si |-> None, k |-> None, sigma |-> None,
          qq |-> None, lwtrunc |-> None]

\* ----------------------------------------------------------------- arrays

\* an array object: a buffer and a shape (C order)
Arr(b, shape) == [buf |-> b, shape |-> shape]

ndim(a) == Len(a.shape)

\* ColView iterating lw_out instead of lw_out.T: the c-th run of the buffer
ColViewNoTranspose(a, c) ==
    IF ndim(a) = 2
    THEN [r \in 1..a.shape[1] |-> (c - 1) * a.shape[1] + r]
    ELSE [r \in 1..a.shape[1] |-> r]

\* the rows psislw iterates over: lw_out.T for a 2-D array (one per column),
\* lw_out[None, :] for a 1-D array (the whole array); each is a view, given
\* by the buffer positions of its elements
ColView(a, c) ==
    IF ndim(a) = 2
    THEN [r \in 1..a.shape[1] |-> (r - 1) * a.shape[2] + c]
    ELSE [r \in 1..a.shape[1] |-> r]

\* the elements seen through a view
ReadView(h, a, c) == LET v == ColView(a, c) IN [r \in DOMAIN v |-> h[a.buf][v[r]]]

\* the heap after writing x through a view
WriteView(h, a, c, x) ==
    LET v == ColView(a, c)
    IN  [h EXCEPT ![a.buf] =
            [j \in DOMAIN @ |->
                IF \E r \in DOMAIN v : v[r] = j
                THEN x[CHOOSE r \in DOMAIN v : v[r] = j]
                ELSE @[j]]]

\* the current column x of psislw's loop
CurX == ReadView(heap, lw_out, i)

\* ----------------------------------------------------------------- inputs

\* the log-weight whose weight exp(lw) is the whole number w
LogW(w) == Log(<<w, 1>>)

\* small arrays: 0-D, 1-D, 2-D (of 0, 1 or 2 columns) and 3-D, every entry
\* free among the log-weights log 1 and +inf
SmallShapes ==
    {<< >>, <<2, 1, 1>>, <<SmallRows, 0>>}
    \cup {<<r>> : r \in 1..SmallRows}
    \cup {<<r, c>> : r \in 1..SmallRows, c \in {1, 2}}

SmallArrays ==
    UNION {{[shape |-> sh, data |-> d] :
               d \in [1..Size(sh) -> {LogW(1), Log(PInf)}]} :
           sh \in SmallShapes}

\* tall arrays have MaxRows rows.  A column is a profile of weights taken
\* as it is, reversed, or with its weights raised to at least 2.  The
\* profiles of a 1-D array are the non-decreasing sequences of weights
\* 1..MaxW; the columns of a 2-D array share one ramp 1, 2, .., p, p, .., p
Profiles ==
    {p \in [1..MaxRows -> 1..MaxW] : \A r \in 1..(MaxRows - 1) : p[r] <= p[r + 1]}

Ramps == {[r \in 1..MaxRows |-> IF r < p THEN r ELSE p] : p \in 1..MaxW}

Variants == {"asc", "desc", "lifted"}

VariantOf(p, v) ==
    CASE v = "asc" -> p
      [] v = "desc" -> [r \in 1..MaxRows |-> p[MaxRows + 1 - r]]
      [] v = "lifted" -> [r \in 1..MaxRows |-> IF p[r] < 2 THEN 2 ELSE p[r]]

TallArrays ==
    {[shape |-> <<MaxRows>>, data |-> [r \in 1..MaxRows |-> LogW(VariantOf(p, v)[r])]] :
        p \in Profiles, v \in Variants}
    \cup
    UNION {{[shape |-> <<MaxRows, c>>,
             data |-> [j \in 1..(MaxRows * c) |->
                          LogW(VariantOf(p, vs[((j - 1) % c) + 1])[((j - 1) \div c) + 1])]] :
               p \in Ramps, vs \in [1..c -> Variants]} :
           c \in 1..MaxCols}

Arrays == SmallArrays \cup TallArrays

\* wcpp: the default 20, 50 and 100
Wcpps == {20, 50, 100}

\* wtrunc is given by the number n ** (wtrunc - 1) it makes: 0 stands for
\* wtrunc = 0 (truncation off) and 3/5 for wtrunc = 1 + log(3/5)/log(n),
\* which is positive for every n > 1
Wtruncs == {Zero, <<3, 5>>}

\* the draw count psislw derives from a shape
RowsOf(shape) == IF Len(shape) \in {1, 2} THEN shape[1] ELSE 0

\* the percentile rank of the cutoff falls on an order statistic
ExactCutoff(shape, w) ==
    RowsOf(shape) > 1 => ((RowsOf(shape) - 1) * (100 - w)) % 100 = 0

\* ----------------------------------------------------------------- psislw

\* cutoffmin = np.log(np.finfo(float).tiny)
cutoffmin == Log(<<1, TinyInv>>)

\* InPlace with the overwrite flag ignored: always in place
InPlaceAlways == TRUE

\* line 129: the output array is the input array itself
InPlace == overwrite_lw

\* lines 119-141: the shape and sample-size checks, the choice of the output
\* array (the input itself or a copy in a new buffer) and np.empty(m)
PsislwEnter ==
    /\ pc = "psislw"
    /\ LET nn == IF ndim(lw) \in {1, 2} THEN lw.shape[1] ELSE 0
           mm == IF ndim(lw) = 2 THEN lw.shape[2] ELSE 1
       IN  IF ndim(lw) \notin {1, 2}
           THEN /\ err' = "ValueError: Argument lw must be 1 or 2 dimensional."
                /\ pc' = "raised"
                /\ UNCHANGED <<heap, lw_out, n, m, kss, i>>
           ELSE IF nn <= 1
           THEN /\ err' = "ValueError: More than one log-weight needed."
                /\ pc' = "raised"
                /\ n' = nn
                /\ m' = mm
                /\ UNCHANGED <<heap, lw_out, kss, i>>
           ELSE /\ n' = nn
                /\ m' = mm
                /\ IF InPlace
                   THEN lw_out' = lw /\ heap' = heap
                   ELSE /\ lw_out' = Arr(Len(heap) + 1, lw.shape)
                        /\ heap' = Append(heap, heap[lw.buf])
                /\ kss' = [c \in 1..mm |-> Unset]
                /\ i' = 0
                /\ pc' = "next"
                /\ err' = err
    /\ UNCHANGED <<op, arg, orig, lwVars, loc, xshift, ret, looVars, cmpVars,
                   gpVars, fitVars>>

\* line 144: the number of views the loop enumerates
NumViews(a) == IF ndim(a) = 2 THEN a.shape[2] ELSE 1

\* line 144: the loop header takes the next view or leaves the loop
ColNext ==
    /\ pc = "next"
    /\ IF i < NumViews(lw_out)
       THEN i' = i + 1 /\ pc' = "shift"
       ELSE i' = i /\ pc' = "return"
    /\ UNCHANGED <<op, err, heap, arg, orig, lwVars, lw_out, n, m, kss, loc,
                   xshift, ret, looVars, cmpVars,
                   gpVars, fitVars>>

\* line 146: x - np.max(x)
ShiftCol(x) == LET mx == NpMax(x) IN [r \in DOMAIN x |-> LSub(x[r], mx)]

\* line 146: x -= np.max(x), in place through the view
ColShift ==
    /\ pc = "shift"
    /\ heap' = WriteView(heap, lw_out, i, ShiftCol(CurX))
    /\ xshift' = ShiftCol(CurX)
    /\ pc' = "tail"
    /\ UNCHANGED <<op, err, arg, orig, lwVars, lw_out, n, m, kss, i, loc, ret,
                   looVars, cmpVars,
                   gpVars, fitVars>>

\* lines 148-151: max(np.percentile(x, 100 - wcpp), cutoffmin)
Cutoff(x, w) == PyMax(Percentile(x, 100 - w), cutoffmin)

\* line 153: np.where(x > xcutoff), the positions above the cutoff, ascending
TailInds(x, cut) ==
    LET S == {r \in DOMAIN x : LGt(x[r], cut)}
        f[T \in SUBSET S] ==
            IF T = {} THEN << >>
            ELSE LET lo == CHOOSE a \in T : \A b \in T : a <= b
                 IN  <<lo>> \o f[T \ {lo}]
    IN  f[S]

\* TailTooSmall with the guard dropped: every tail goes to gpdfitnew
TailTooSmallNever(nn) == FALSE

\* TailTooSmall with the threshold off by one
TailTooSmallBelow4(nn) == nn < 4

\* line 156: not enough tail samples for gpdfitnew
TailTooSmall(nn) == nn <= 4

\* lines 148-158: the cutoff, the tail and the branch on its size
ColTail ==
    /\ pc = "tail"
    /\ LET x == CurX
           cut == Cutoff(x, wcpp)
           ti == TailInds(x, cut)
       IN  /\ loc' = [loc EXCEPT !.xcutoff = cut,
                                 !.expxcutoff = Exp(cut),
                                 !.tailinds = ti,
                                 !.x2 = [j \in DOMAIN ti |-> x[ti[j]]],
                                 !.n2 = Len(ti),
                                 !.k = IF TailTooSmall(Len(ti)) THEN PInf ELSE @]
           /\ pc' = IF TailTooSmall(Len(ti)) THEN "trunc" ELSE "fit"
    /\ UNCHANGED <<op, err, heap, arg, orig, lwVars, lw_out, n, m, kss, i,
                   xshift, ret, looVars, cmpVars,
                   gpVars, fitVars>>

\* lines 163-164: np.exp(x2, out=x2); x2 -= expxcutoff
Excess(x2, expcut) == [j \in DOMAIN x2 |-> RSub(Exp(x2[j]), expcut)]

\* lines 161-165: the order of the tail, the excesses over the cutoff (in
\* the copy x2) and the call of gpdfitnew, which raises on an invalid array
ColFit ==
    /\ pc = "fit"
    /\ LET si == ArgSort(loc.x2)
           ex == Excess(loc.x2, loc.expxcutoff)
       IN  IF gpdfitnewInvalid(ex)
           THEN /\ err' = "ValueError: Invalid input array."
                /\ pc' = "raised"
                /\ loc' = [loc EXCEPT !.x2si = si, !.x2 = ex]
           ELSE \E fit \in GpdFits :
                /\ loc' = [loc EXCEPT !.x2si = si, !.x2 = ex,
                                      !.k = fit[1], !.sigma = fit[2]]
                /\ pc' = "place"
                /\ err' = err
    /\ UNCHANGED <<op, heap, arg, orig, lwVars, lw_out, n, m, kss, i, xshift,
                   ret, looVars, cmpVars,
                   gpVars, fitVars>>

\* lines 167-168: sti = np.arange(0.5, n2) / n2
Sti(nn) == [j \in 1..nn |-> Norm(2 * j - 1, 2 * nn)]

\* lines 169-171: qq = log(gpinv(sti, k, sigma) + expxcutoff)
Quantiles(nn, kk, sg, expcut) ==
    LET g == gpinv(Sti(nn), kk, sg)
    IN  [j \in DOMAIN g |-> Log(RAdd(g[j], expcut))]

\* PlaceTail without the sort order: x[tailinds] = qq
PlaceTailUnsorted(x, ti, si, q) ==
    [r \in DOMAIN x |->
        IF \E j \in DOMAIN ti : ti[j] = r
        THEN q[CHOOSE j \in DOMAIN ti : ti[j] = r]
        ELSE x[r]]

\* line 173: x[tailinds[x2si]] = qq
PlaceTail(x, ti, si, q) ==
    [r \in DOMAIN x |->
        IF \E j \in DOMAIN si : ti[si[j]] = r
        THEN q[CHOOSE j \in DOMAIN si : ti[si[j]] = r]
        ELSE x[r]]

\* lines 167-173: the smoothed order statistics and their placement
ColPlace ==
    /\ pc = "place"
    /\ LET q == Quantiles(loc.n2, loc.k, loc.sigma, loc.expxcutoff)
       IN  /\ loc' = [loc EXCEPT !.qq = q]
           /\ heap' = WriteView(heap, lw_out, i, PlaceTail(CurX, loc.tailinds, loc.x2si, q))
    /\ pc' = "trunc"
    /\ UNCHANGED <<op, err, arg, orig, lwVars, lw_out, n, m, kss, i, xshift,
                   ret, looVars, cmpVars,
                   gpVars, fitVars>>

\* line 174: wtrunc > 0
WtruncPositive(w) == w # Zero

\* Lwtrunc without the column's sumlogs: wtrunc * logn - logn
LwtruncNoSum(x, w) == Log(w)

\* line 176: wtrunc * logn - logn + sumlogs(x)
Lwtrunc(x, w) == LAdd(Log(w), sumlogs(x))

\* line 177: x[x > lwtrunc] = lwtrunc
ClipCol(x, t) == [r \in DOMAIN x |-> IF LGt(x[r], t) THEN t ELSE x[r]]

\* lines 174-177: the truncation of too large weights
ColTrunc ==
    /\ pc = "trunc"
    /\ IF WtruncPositive(wtrunc)
       THEN /\ loc' = [loc EXCEPT !.lwtrunc = Lwtrunc(CurX, wtrunc)]
            /\ heap' = WriteView(heap, lw_out, i, ClipCol(CurX, Lwtrunc(CurX, wtrunc)))
       ELSE UNCHANGED <<loc, heap>>
    /\ pc' = "norm"
    /\ UNCHANGED <<op, err, arg, orig, lwVars, lw_out, n, m, kss, i, xshift,
                   ret, looVars, cmpVars,
                   gpVars, fitVars>>

\* line 179: x - sumlogs(x)
NormCol(x) == LET sl == sumlogs(x) IN [r \in DOMAIN x |-> LSub(x[r], sl)]

\* lines 179-181: x -= sumlogs(x); kss[i] = k
ColNorm ==
    /\ pc = "norm"
    /\ heap' = WriteView(heap, lw_out, i, NormCol(CurX))
    /\ kss' = [kss EXCEPT ![i] = loc.k]
    /\ pc' = "next"
    /\ UNCHANGED <<op, err, arg, orig, lwVars, lw_out, n, m, i, loc, xshift,
                   ret, looVars, cmpVars,
                   gpVars, fitVars>>

\* lines 184-187: kss as a scalar for a 1-D array, and the return
PsislwReturn ==
    /\ pc = "return"
    /\ ret' = <<lw_out, IF ndim(lw_out) = 1 THEN kss[1] ELSE kss>>
    /\ pc' = IF op = "psisloo" THEN "loo_add" ELSE "done"
    /\ UNCHANGED <<op, err, heap, arg, orig, lwVars, lw_out, n, m, kss, i, loc,
                   xshift, looVars, cmpVars,
                   gpVars, fitVars>>

\* ---------------------------------------------------- the psislw caller

Init ==
    /\ op = "psislw"
    /\ pc = "psislw"
    /\ err = ""
    /\ \E a \in Arrays :
        /\ heap = <<a.data>>
        /\ arg = Arr(1, a.shape)
        /\ orig = a.data
    /\ lw = arg
    /\ wcpp \in Wcpps
    /\ ExactCutoff(arg.shape, wcpp)
    /\ wtrunc \in Wtruncs
    /\ overwrite_lw \in BOOLEAN
    /\ lw_out = None /\ n = 0 /\ m = 0 /\ kss = None /\ i = 0
    /\ loc = NoLoc
    /\ xshift = None
    /\ ret = None
    /\ log_lik = None /\ kwargs = None /\ loo_ret = None /\ passed = None
    /\ psisloo1 = None /\ psisloo2 = None /\ elpd_diff = None
    /\ gp = None /\ FIT_CACHE = << >> /\ calls = << >> /\ stan_calls = << >>

Next ==
    \/ PsislwEnter
    \/ ColNext
    \/ ColShift
    \/ ColTail
    \/ ColFit
    \/ ColPlace
    \/ ColTrunc
    \/ ColNorm
    \/ PsislwReturn

Spec == Init /\ [][Next]_vars

\* ---------------------------------------------------------------- psisloo

\* line 81 done in place: the negation written into log_lik's own buffer
NegatedInPlace(h, a) ==
    <<[h EXCEPT ![a.buf] = [j \in DOMAIN @ |-> LNeg(@[j])]], a>>

\* line 81: lw = -log_lik, a new array; the heap with it, and the array
Negated(h, a) ==
    <<Append(h, [j \in DOMAIN h[a.buf] |-> LNeg(h[a.buf][j])]),
      Arr(Len(h) + 1, a.shape)>>

\* lines 79-83: the overwrite flag is forced on, the raw log-weights are
\* the negated log-likelihood, and psislw is called with them
PsislooEnter ==
    /\ pc = "psisloo"
    /\ kwargs' = [overwrite_lw |-> TRUE] @@ kwargs
    /\ heap' = Negated(heap, log_lik)[1]
    /\ lw' = Negated(heap, log_lik)[2]
    /\ wcpp' = kwargs.wcpp
    /\ wtrunc' = kwargs.wtrunc
    /\ overwrite_lw' = TRUE
    /\ pc' = "psislw"
    /\ UNCHANGED <<op, err, arg, orig, lw_out, n, m, kss, i, loc, xshift, ret,
                   log_lik, loo_ret, passed, cmpVars,
                   gpVars, fitVars>>

\* line 86: sumlogs(lw, axis=0): one value per column of a 2-D array, one
\* value for a 1-D array
sumlogsAxis0(data, shape) ==
    IF Len(shape) = 2
    THEN [c \in 1..shape[2] |->
             sumlogs([r \in 1..shape[1] |-> data[(r - 1) * shape[2] + c]])]
    ELSE sumlogs(data)

\* line 87: loos.sum(), a sum of log-values (the value itself when loos is
\* a scalar)
RECURSIVE LSum(_)
LSum(s) == IF s = << >> THEN Log(One) ELSE LAdd(Head(s), LSum(Tail(s)))

\* lines 83-88: lw += log_lik in place on the array psislw returned, the
\* pointwise terms, their sum, and the return
PsislooFinish ==
    /\ pc = "loo_add"
    /\ LET a == ret[1]
           sum == [j \in DOMAIN heap[a.buf] |->
                      LAdd(heap[a.buf][j], heap[log_lik.buf][j])]
           loos == sumlogsAxis0(sum, a.shape)
       IN  /\ heap' = [heap EXCEPT ![a.buf] = sum]
           /\ loo_ret' = <<IF ndim(a) = 2 THEN LSum(loos) ELSE loos, loos, ret[2]>>
    /\ pc' = "done"
    /\ UNCHANGED <<op, err, arg, orig, lwVars, lw_out, n, m, kss, i, loc,
                   xshift, ret, log_lik, kwargs, passed, cmpVars,
                   gpVars, fitVars>>

\* the keyword arguments a caller passes to psisloo: wcpp and wtrunc, with
\* or without an overwrite_lw of its own
Kwargs(shape) ==
    LET base == {[wcpp |-> w, wtrunc |-> t] :
                    w \in {w \in Wcpps : ExactCutoff(shape, w)}, t \in Wtruncs}
    IN  base \cup {[overwrite_lw |-> b] @@ k : b \in BOOLEAN, k \in base}

InitLoo ==
    /\ op = "psisloo"
    /\ pc = "psisloo"
    /\ err = ""
    /\ \E a \in Arrays :
        /\ heap = <<a.data>>
        /\ arg = Arr(1, a.shape)
        /\ orig = a.data
    /\ log_lik = arg
    /\ kwargs \in Kwargs(arg.shape)
    /\ passed = kwargs
    /\ lw = None /\ wcpp = 0 /\ wtrunc = Zero /\ overwrite_lw = FALSE
    /\ lw_out = None /\ n = 0 /\ m = 0 /\ kss = None /\ i = 0
    /\ loc = NoLoc
    /\ xshift = None
    /\ ret = None
    /\ loo_ret = None
    /\ psisloo1 = None /\ psisloo2 = None /\ elpd_diff = None
    /\ gp = None /\ FIT_CACHE = << >> /\ calls = << >> /\ stan_calls = << >>

NextLoo ==
    \/ PsislooEnter
    \/ PsislwEnter
    \/ ColNext
    \/ ColShift
    \/ ColTail
    \/ ColFit
    \/ ColPlace
    \/ ColTrunc
    \/ ColNorm
    \/ PsislwReturn
    \/ PsislooFinish

SpecLoo == InitLoo /\ [][NextLoo]_vars

\* ------------------------------------------------------------ loo_compare

\* observations of a point-wise table
MaxObs == 2

\* point-wise elpd values are the whole numbers -MaxElpd..MaxElpd and
\* not-a-number
MaxElpd == 1

\* the pointwise_elpd column of a Psisloo object's point-wise table
Tables ==
    UNION {[1..len -> {<<v, 1>> : v \in -MaxElpd..MaxElpd} \cup {NaN}] :
           len \in 1..MaxObs}

\* lines 128-131: psisloo1.pointwise.join(psisloo2.pointwise): the rows of
\* the left table, each with the right table's value at the same index, or
\* not-a-number where the right table has none
Join(t1, t2) ==
    [j \in DOMAIN t1 |-> <<t1[j], IF j \in DOMAIN t2 THEN t2[j] ELSE NaN>>]

\* PwDiff the other way round: m1 - m2
PwDiffReversed(row) == RSub(row[1], row[2])

\* line 133: pointwise_elpd_m2 - pointwise_elpd_m1
PwDiff(row) == RSub(row[2], row[1])

\* the elements of a column that pandas does not skip
NotNA(d) == SelectSeq(d, LAMBDA v : ~IsNaN(v))

\* line 135: numpy.sum of a column goes to pandas' Series.sum, which skips
\* not-a-number; the sum of nothing is 0 or not-a-number by pandas version
SeriesSum(d, ofNothing) ==
    IF NotNA(d) = << >> THEN ofNothing ELSE RSum(NotNA(d))

\* SeriesVar with pandas' own default ddof=1
SeriesVarSample(d) ==
    LET v == NotNA(d)
        cnt == <<Len(v), 1>>
        avg == RDiv(RSum(v), cnt)
        sqr == [j \in DOMAIN v |-> RMul(RSub(avg, v[j]), RSub(avg, v[j]))]
    IN  RDiv(RSum(sqr), <<Len(v) - 1, 1>>)

\* line 136: numpy.std of a column goes to pandas' Series.std(ddof=0),
\* which skips not-a-number; this is its square, the variance
SeriesVar(d) ==
    LET v == NotNA(d)
        cnt == <<Len(v), 1>>
        avg == RDiv(RSum(v), cnt)
        sqr == [j \in DOMAIN v |-> RMul(RSub(avg, v[j]), RSub(avg, v[j]))]
    IN  RDiv(RSum(sqr), cnt)

\* lines 128-143: the result of loo_compare; se_diff, a square root, is
\* held by its square len(pw_diff) * variance
Compare(t1, t2, ofNothing) ==
    LET loores == Join(t1, t2)
        pw_diff == [j \in DOMAIN loores |-> PwDiff(loores[j])]
    IN  [diff |-> SeriesSum(pw_diff, ofNothing),
         se_diff_sq |-> RMul(<<Len(pw_diff), 1>>, SeriesVar(pw_diff))]

LooCompare ==
    /\ pc = "loo_compare"
    /\ \E ofNothing \in {Zero, NaN} :
          elpd_diff' = Compare(psisloo1, psisloo2, ofNothing)
    /\ pc' = "done"
    /\ UNCHANGED <<op, err, heap, arg, orig, lwVars, lw_out, n, m, kss, i, loc,
                   xshift, ret, looVars, psisloo1, psisloo2, gpVars, fitVars>>

InitCompare ==
    /\ op = "loo_compare"
    /\ pc = "loo_compare"
    /\ err = ""
    /\ heap = << >> /\ arg = None /\ orig = None
    /\ lw = None /\ wcpp = 0 /\ wtrunc = Zero /\ overwrite_lw = FALSE
    /\ lw_out = None /\ n = 0 /\ m = 0 /\ kss = None /\ i = 0
    /\ loc = NoLoc
    /\ xshift = None
    /\ ret = None
    /\ log_lik = None /\ kwargs = None /\ loo_ret = None /\ passed = None
    /\ psisloo1 \in Tables
    /\ psisloo2 \in Tables
    /\ elpd_diff = None
    /\ gp = None /\ FIT_CACHE = << >> /\ calls = << >> /\ stan_calls = << >>

NextCompare == LooCompare

SpecCompare == InitCompare /\ [][NextCompare]_vars

\* ------------------------------------------------------------------ gpinv

\* elements of the array p
MaxP == 2

\* the probabilities of p are the multiples of 1/PDen in [0, 1]
PDen == 2

\* k is a whole number in -MaxK..MaxK or a number below eps in magnitude
MaxK == 1

\* sigma is a whole number in -MaxSigma..MaxSigma
MaxSigma == 1

\* the 1-D arrays p gpinv is called with
PArrays == UNION {[1..len -> {Norm(j, PDen) : j \in 0..PDen}] : len \in 1..MaxP}

\* the values of k: whole numbers (0 included) and +-1/(2/eps), below eps
Ks == {<<v, 1>> : v \in -MaxK..MaxK} \cup {<<1, 2 * EpsInv>>, <<-1, 2 * EpsInv>>}

Sigmas == {<<v, 1>> : v \in -MaxSigma..MaxSigma}

\* lines 287-329: one call of gpinv
Gpinv ==
    /\ pc = "gpinv"
    /\ gp' = [gp EXCEPT !.x = gpinv(gp.p, gp.k, gp.sigma)]
    /\ pc' = "done"
    /\ UNCHANGED <<op, err, heap, arg, orig, lwVars, lw_out, n, m, kss, i, loc,
                   xshift, ret, looVars, cmpVars, fitVars>>

InitGpinv ==
    /\ op = "gpinv"
    /\ pc = "gpinv"
    /\ err = ""
    /\ heap = << >> /\ arg = None /\ orig = None
    /\ lw = None /\ wcpp = 0 /\ wtrunc = Zero /\ overwrite_lw = FALSE
    /\ lw_out = None /\ n = 0 /\ m = 0 /\ kss = None /\ i = 0
    /\ loc = NoLoc
    /\ xshift = None
    /\ ret = None
    /\ log_lik = None /\ kwargs = None /\ loo_ret = None /\ passed = None
    /\ psisloo1 = None /\ psisloo2 = None /\ elpd_diff = None
    /\ gp \in [p : PArrays, k : Ks, sigma : Sigmas, x : {None}]
    /\ FIT_CACHE = << >> /\ calls = << >> /\ stan_calls = << >>

NextGpinv == Gpinv

SpecGpinv == InitGpinv /\ [][NextGpinv]_vars

\* -------------------------------------------------------------------- fit

\* concurrent callers of fit
MaxCallers == 2

\* distinct model_code texts
MaxCodes == 2

\* a caller of fit about to run line 27 with the given model_code; fit is
\* kwargs['fit'], result the value of pystan.stan, ret the value returned
NewCall(code) ==
    [pc |-> "check", model_code |-> code, fit |-> None, result |-> None,
     ret |-> None]

\* lines 27-35: the keyword arguments and the membership check; a cached
\* fit goes into kwargs['fit'] ("Reusing model."), otherwise nothing does
FitCheck(t) ==
    /\ calls[t].pc = "check"
    /\ calls' = [calls EXCEPT
          ![t].fit = IF calls[t].model_code \in DOMAIN FIT_CACHE
                     THEN <<FIT_CACHE[calls[t].model_code]>> ELSE None,
          ![t].pc = "stan"]
    /\ UNCHANGED <<op, pc, err, heap, arg, orig, lwVars, lw_out, n, m, kss, i,
                   loc, xshift, ret, looVars, cmpVars, gpVars, FIT_CACHE,
                   stan_calls>>

\* line 37, right-hand side: pystan.stan(*args, **kwargs) runs, compiling
\* the model unless kwargs holds a fit to reuse, and gives a new fit
FitStan(t) ==
    /\ calls[t].pc = "stan"
    /\ stan_calls' = Append(stan_calls,
          [model_code |-> calls[t].model_code, fit |-> calls[t].fit])
    /\ calls' = [calls EXCEPT ![t].result = Len(stan_calls) + 1, ![t].pc = "store"]
    /\ UNCHANGED <<op, pc, err, heap, arg, orig, lwVars, lw_out, n, m, kss, i,
                   loc, xshift, ret, looVars, cmpVars, gpVars, FIT_CACHE>>

\* line 37, the assignment: FIT_CACHE[model_code] = <the new fit>
FitStore(t) ==
    /\ calls[t].pc = "store"
    /\ FIT_CACHE' = [c \in DOMAIN FIT_CACHE \cup {calls[t].model_code} |->
                        IF c = calls[t].model_code THEN calls[t].result
                        ELSE FIT_CACHE[c]]
    /\ calls' = [calls EXCEPT ![t].pc = "return"]
    /\ UNCHANGED <<op, pc, err, heap, arg, orig, lwVars, lw_out, n, m, kss, i,
                   loc, xshift, ret, looVars, cmpVars, gpVars, stan_calls>>

\* line 39: return FIT_CACHE[model_code], read again from the cache
FitReturn(t) ==
    /\ calls[t].pc = "return"
    /\ calls' = [calls EXCEPT ![t].ret = FIT_CACHE[calls[t].model_code],
                              ![t].pc = "done"]
    /\ UNCHANGED <<op, pc, err, heap, arg, orig, lwVars, lw_out, n, m, kss, i,
                   loc, xshift, ret, looVars, cmpVars, gpVars, FIT_CACHE,
                   stan_calls>>

\* line 5: the cache is empty when the module is loaded; the callers run
\* on threads of one interpreter
InitFit ==
    /\ op = "fit"
    /\ pc = "fit"
    /\ err = ""
    /\ heap = << >> /\ arg = None /\ orig = None
    /\ lw = None /\ wcpp = 0 /\ wtrunc = Zero /\ overwrite_lw = FALSE
    /\ lw_out = None /\ n = 0 /\ m = 0 /\ kss = None /\ i = 0
    /\ loc = NoLoc
    /\ xshift = None
    /\ ret = None
    /\ log_lik = None /\ kwargs = None /\ loo_ret = None /\ passed = None
    /\ psisloo1 = None /\ psisloo2 = None /\ elpd_diff = None
    /\ gp = None
    /\ FIT_CACHE = << >>
    /\ \E codes \in [1..MaxCallers -> 1..MaxCodes] :
          calls = [t \in 1..MaxCallers |-> NewCall(codes[t])]
    /\ stan_calls = << >>

NextFit ==
    \/ \E t \in DOMAIN calls : FitCheck(t)
    \/ \E t \in DOMAIN calls : FitStan(t)
    \/ \E t \in DOMAIN calls : FitStore(t)
    \/ \E t \in DOMAIN calls : FitReturn(t)

SpecFit == InitFit /\ [][NextFit]_vars

\* ------------------------------------------------------ claims on psislw

DimError == "ValueError: Argument lw must be 1 or 2 dimensional."

SizeError == "ValueError: More than one log-weight needed."

\* column c of an array of the given shape and flat data (C order)
FCol(data, shape, c) ==
    IF Len(shape) = 2
    THEN [r \in 1..shape[1] |-> data[(r - 1) * shape[2] + c]]
    ELSE data

\* the number of columns of an array of the given shape
FNumCols(shape) == IF Len(shape) = 2 THEN shape[2] ELSE 1

\* column c of the output array and of the caller's input
OutCol(c) == FCol(heap[lw_out.buf], lw_out.shape, c)

InCol(c) == FCol(orig, arg.shape, c)

\* the sum of the weights exp(x) of a column of log-weights
LinSum(x) == RSum([j \in DOMAIN x |-> Exp(x[j])])

HasNaN(x) == \E r \in DOMAIN x : LIsNaN(x[r])

AllNaN(x) == \A r \in DOMAIN x : LIsNaN(x[r])

\* the column the loop has last taken is finished
ColumnDone == pc \in {"next", "return", "done"} /\ i >= 1

\* C1: psislw raises an error when the input is neither 1- nor 2-dimensional
\* and when n <= 1, and only then; whenever it has raised, no element of the
\* caller's array has changed (also with overwrite_lw), no output array
\* exists and no column has been shifted or smoothed: no error, gpdfitnew's
\* included, is raised once a column has been touched.
C1_ErrorsBeforeMutation ==
    /\ pc # "psislw" =>
          ((pc = "raised") <=> (Len(arg.shape) \notin {1, 2} \/ arg.shape[1] <= 1))
    /\ pc = "raised" =>
          /\ err \in {DimError, SizeError}
          /\ heap = <<orig>>
          /\ lw_out = None
          /\ xshift = None

C1_Witness ==
    pc = "raised" /\ overwrite_lw /\ err = SizeError /\ Len(arg.shape) = 2

\* C2 as claimed: for every valid input and every column, the returned
\* log-weights have LogSumExp 0, that is, the weights sum to 1.
C2_Original ==
    pc = "done" => \A c \in 1..FNumCols(lw_out.shape) : LinSum(OutCol(c)) = One

\* the finished column is degenerate: its shifted values hold not-a-number
\* or its tail fit returned sigma <= 0
Degenerate ==
    HasNaN(xshift) \/ (loc.n2 > 4 /\ RLe(loc.sigma, Zero))

\* the finished column is regular: its shifted values are numbers and its
\* tail was too small to fit or the fit returned a finite k and sigma > 0
Regular ==
    /\ ~HasNaN(xshift)
    /\ loc.n2 > 4 => IsFinite(loc.k) /\ RGt(loc.sigma, Zero)

\* C2 amended: every column of the returned log-weights is normalized
\* (weights sum to 1) or entirely not-a-number.  A regular column (shifted
\* values all numbers; tail too small, or fitted with a finite k and
\* sigma > 0) is normalized, whichever branch it took; a degenerate column
\* (not-a-number among its shifted values, or a fit with sigma <= 0) is
\* entirely not-a-number.
C2_NormalizedUnlessDegenerate ==
    /\ pc = "done" =>
          \A c \in 1..FNumCols(lw_out.shape) :
              AllNaN(OutCol(c)) \/ LinSum(OutCol(c)) = One
    /\ ColumnDone =>
          /\ Degenerate => AllNaN(OutCol(i))
          /\ Regular => LinSum(OutCol(i)) = One

C2_Witness ==
    /\ ColumnDone
    /\ loc.n2 > 4
    /\ WtruncPositive(wtrunc)
    /\ \E j \in DOMAIN loc.qq : LGt(loc.qq[j], loc.lwtrunc)
    /\ LinSum(OutCol(i)) = One

\* C3: with overwrite_lw false the caller's array is never changed and the
\* result is a new array of the same shape; with overwrite_lw true the result
\* is the caller's array itself and no other array is allocated.
C3_OverwritePolicy ==
    /\ ~overwrite_lw => heap[arg.buf] = orig
    /\ pc = "done" =>
          IF overwrite_lw
          THEN ret[1] = arg /\ Len(heap) = 1
          ELSE ret[1].buf # arg.buf /\ ret[1].shape = arg.shape /\ Len(heap) = 2

C3_Witness ==
    pc = "done" /\ ~overwrite_lw /\ heap[ret[1].buf] # orig

\* C5: a column with at most 4 entries above the cutoff raises nothing: the
\* fit is skipped, the tail index is +infinity, the column still equals its
\* shifted values when truncation starts (no quantile was placed), no error
\* is raised for it, and at the return every column has its tail index.
C5_SmallTailIsNotAnError ==
    /\ (pc = "trunc" /\ loc.n2 <= 4) =>
          loc.k = PInf /\ OutCol(i) = xshift /\ err = ""
    /\ (ColumnDone /\ loc.n2 <= 4) => kss[i] = PInf
    /\ pc = "raised" => lw_out = None
    /\ pc = "done" => \A c \in 1..FNumCols(lw_out.shape) : kss[c] # Unset
    /\ (pc \in {"trunc", "norm", "next", "shift", "return", "done"} /\ i >= 1
           /\ loc.n2 <= 4) => err = ""

C5_Witness ==
    /\ pc = "done"
    /\ FNumCols(lw_out.shape) = 2
    /\ kss[1] = PInf
    /\ IsFinite(kss[2])

\* C6 as claimed: a column with at most 4 exceedances has tail index
\* +infinity and its non-tail entries in the output are identical to the
\* shifted values.
C6_Original ==
    (ColumnDone /\ loc.n2 <= 4) =>
        /\ kss[i] = PInf
        /\ \A r \in DOMAIN xshift :
              ~LGt(xshift[r], loc.xcutoff) => OutCol(i)[r] = xshift[r]

\* what truncation and renormalization make of a shifted column x
ClippedNormalized(x) ==
    LET t == Log(RMul(wtrunc, LinSum(x)))
        cl == [r \in DOMAIN x |->
                  IF wtrunc # Zero /\ LGt(x[r], t) THEN t ELSE x[r]]
    IN  [r \in DOMAIN x |-> Log(RDiv(Exp(cl[r]), LinSum(cl)))]

\* C6 amended: a column with at most 4 exceedances has tail index +infinity
\* and every entry of it in the output, tail or not, is its shifted value,
\* clipped at the truncation threshold when truncation is on, minus the
\* LogSumExp of the clipped column.
C6_SmallTailClippedNormalized ==
    (ColumnDone /\ loc.n2 <= 4) =>
        /\ kss[i] = PInf
        /\ OutCol(i) = ClippedNormalized(xshift)

C6_Witness ==
    /\ pc = "done"
    /\ loc.n2 <= 4
    /\ WtruncPositive(wtrunc)
    /\ \E r \in DOMAIN xshift :
          ~LGt(xshift[r], loc.xcutoff) /\ OutCol(i)[r] # xshift[r]

\* the positions of the shifted column above the cutoff
Exceed == {r \in DOMAIN xshift : LGt(xshift[r], loc.xcutoff)}

\* the smoothed quantiles in ascending order
SortedQq ==
    IF HasNaN(loc.qq) THEN loc.qq
    ELSE [j \in DOMAIN loc.qq |-> loc.qq[ArgSort(loc.qq)[j]]]

\* the position of the j-th smallest exceedance, in the order line 161 found
\* (whichever way it orders equal exceedances)
RankPos(j) == loc.tailinds[loc.x2si[j]]

\* C7: right after the substitution in a column with more than 4
\* exceedances, the position of the j-th smallest exceedance holds the j-th
\* smallest quantile, for every j in 1..n2; the smoothed tail is monotonic
\* in the order of the exceedances; the n2 written positions are distinct
\* and are exactly the exceedances; every other position keeps its shifted
\* value.
C7_RankPreserving ==
    (pc = "trunc" /\ loc.n2 > 4) =>
        /\ Cardinality(Exceed) = loc.n2
        /\ Len(loc.qq) = loc.n2
        /\ {RankPos(j) : j \in 1..loc.n2} = Exceed
        /\ \A j \in 1..(loc.n2 - 1) : ~LGt(xshift[RankPos(j)], xshift[RankPos(j + 1)])
        /\ \A j \in 1..loc.n2 : OutCol(i)[RankPos(j)] = SortedQq[j]
        /\ \A a, b \in Exceed :
              LGt(xshift[b], xshift[a]) => ~LGt(OutCol(i)[a], OutCol(i)[b])
        /\ \A r \in DOMAIN xshift : r \notin Exceed => OutCol(i)[r] = xshift[r]

C7_Witness ==
    /\ pc = "trunc"
    /\ loc.n2 > 4
    /\ RGt(loc.sigma, Zero)
    /\ \E j \in 1..loc.n2 : loc.x2si[j] # j
    /\ \E a, b \in Exceed : LGt(OutCol(i)[b], OutCol(i)[a])

\* the finished column and everything the iteration computed on the way
\* are what the stages of the loop body make of that column's own input:
\* the shift of the input, the cutoff and tail of the shifted column, the
\* order and quantiles of that tail, the threshold of the column with its
\* tail placed, and the clipped column renormalized
OwnResult ==
    LET ti == loc.tailinds
        small == TailTooSmall(Len(ti))
        pl == IF small THEN xshift ELSE PlaceTail(xshift, ti, loc.x2si, loc.qq)
        tr == IF WtruncPositive(wtrunc) THEN ClipCol(pl, loc.lwtrunc) ELSE pl
    IN  /\ xshift = ShiftCol(InCol(i))
        /\ loc.xcutoff = Cutoff(xshift, wcpp)
        /\ ti = TailInds(xshift, loc.xcutoff)
        /\ ~small =>
              /\ loc.x2si = ArgSort([j \in DOMAIN ti |-> xshift[ti[j]]])
              /\ loc.qq = Quantiles(Len(ti), loc.k, loc.sigma, Exp(loc.xcutoff))
              /\ <<loc.k, loc.sigma>> \in GpdFits
        /\ WtruncPositive(wtrunc) => loc.lwtrunc = Lwtrunc(pl, wtrunc)
        /\ OutCol(i) = NormCol(tr)
        /\ kss[i] = IF small THEN PInf ELSE loc.k

\* a step of the loop leaves every column but the one it is at, and that
\* column's tail index, as they were
OtherColumnsKept ==
    lw_out # None =>
        \A c \in 1..FNumCols(lw_out.shape) :
            c # i' => OutCol(c)' = OutCol(c) /\ kss'[c] = kss[c]

\* C8: columns are independent.  When the loop starts every column of the
\* output holds its input and no tail index; every step of psislw leaves
\* the log-weights and tail index of every column but the current one
\* unchanged; and a finished column holds, with its tail index, what the
\* loop body makes of that column's input alone and the fit of its own
\* tail.  A degenerate fit (sigma <= 0) raises nothing and makes its own
\* column's smoothed values not-a-number.
C8_ColumnsIndependent ==
    /\ [](/\ (pc = "next" /\ i = 0) =>
                \A c \in 1..FNumCols(lw_out.shape) :
                    OutCol(c) = InCol(c) /\ kss[c] = Unset
          /\ ColumnDone => OwnResult
          /\ (pc \in {"trunc", "norm", "next"} /\ i >= 1 /\ loc.n2 > 4
                 /\ RLe(loc.sigma, Zero)) =>
                /\ err = ""
                /\ \A r \in Exceed : LIsNaN(OutCol(i)[r]))
    /\ [][OtherColumnsKept]_vars

C8_Witness ==
    /\ pc = "done"
    /\ FNumCols(lw_out.shape) = 2
    /\ IsFinite(kss[1])
    /\ AllNaN(OutCol(1))
    /\ IsFinite(kss[2])
    /\ ~HasNaN(OutCol(2))

\* ----------------------------------------------------- claims on psisloo

\* C4: psisloo never changes the caller's log-likelihood array: psislw runs
\* with the overwrite flag on whatever the caller passed, on psisloo's own
\* negated copy, which is also the array psislw returns and the only array
\* allocated.
C4_LogLikNeverMutated ==
    /\ heap[arg.buf] = orig
    /\ pc # "psisloo" =>
          /\ overwrite_lw
          /\ lw.buf # arg.buf
          /\ Len(heap) = 2
    /\ lw_out # None => lw_out = lw
    /\ pc \in {"loo_add", "done"} => ret[1] = lw

C4_Witness ==
    /\ pc = "done"
    /\ "overwrite_lw" \in DOMAIN passed
    /\ ~passed.overwrite_lw
    /\ kwargs.overwrite_lw
    /\ heap[lw.buf] # Negated(<<orig>>, arg)[1][2]
    /\ heap[lw.buf] # orig

\* ------------------------------------------------- claims on loo_compare

SameLength == Len(psisloo1) = Len(psisloo2)

\* b - a at every observation, and its sum as floats add
PlainDiffs == [j \in DOMAIN psisloo1 |-> RSub(psisloo2[j], psisloo1[j])]

C10_Original ==
    (pc = "done" /\ psisloo1 = psisloo2) =>
        elpd_diff.diff = Zero /\ elpd_diff.se_diff_sq = Zero

\* C10 amended: loo_compare(a, a) gives diff = 0 and se_diff = 0 for every
\* result a with at least one pointwise_elpd that is a finite number.
C10_SelfCompareZero ==
    (pc = "done" /\ psisloo1 = psisloo2
        /\ \E j \in DOMAIN psisloo1 : IsFinite(psisloo1[j])) =>
        elpd_diff.diff = Zero /\ elpd_diff.se_diff_sq = Zero

C10_Witness ==
    /\ pc = "done"
    /\ psisloo1 = psisloo2
    /\ \E j, l \in DOMAIN psisloo1 :
          IsFinite(psisloo1[j]) /\ IsFinite(psisloo1[l]) /\ psisloo1[j] # psisloo1[l]
    /\ elpd_diff.diff = Zero
    /\ elpd_diff.se_diff_sq = Zero

\* C11: loo_compare does not silently truncate or pad: for point-wise
\* tables of different lengths it raises instead of returning a diff and
\* se_diff, which the join would take over a padded table (the first the
\* longer) or a truncated one (the second the longer).
C11_NoSilentTruncateOrPad ==
    (pc = "done" /\ ~SameLength) => (elpd_diff = None /\ err # "")

\* ------------------------------------------------------- claims on gpinv

\* p is strictly between 0 and 1
Interior(q) == RGt(q, Zero) /\ RLt(q, One)

\* the case table of C12 for one element q of p, written out:
\* sigma * -log(1 - q) when abs(k) < eps (a log-value), and
\* sigma * ((1 - q) ** -k - 1) / k otherwise
CaseTable(q, k, sigma) ==
    IF RLe(sigma, Zero) THEN NaN
    ELSE IF q = Zero THEN Zero
    ELSE IF q = One THEN (IF RLe(Zero, k) THEN PInf ELSE RDiv(RNeg(sigma), k))
    ELSE IF Abs(k[1]) * EpsInv < k[2]
         THEN Log(RPow(RDiv(One, RSub(One, q)), sigma[1]))
         ELSE RMul(sigma, RDiv(RSub(RPow(RDiv(One, RSub(One, q)), k[1]), One), k))

\* C12: gpinv classifies every element by one case table: with sigma <= 0
\* every element of the result is not-a-number, also where p is 0 or 1; with
\* sigma > 0 an element with p = 0 gives 0, one with p = 1 gives +infinity
\* if k >= 0 and -sigma/k otherwise, and one with 0 < p < 1 gives the
\* exponential-limit formula when abs(k) < eps and the general formula
\* otherwise, and that is what gpinv gives for the element on its own,
\* whether or not the array also holds boundary elements.
C12_GpinvCaseTable ==
    (op = "gpinv" /\ pc = "done") =>
        /\ DOMAIN gp.x = DOMAIN gp.p
        /\ \A j \in DOMAIN gp.p :
              /\ gp.x[j] = CaseTable(gp.p[j], gp.k, gp.sigma)
              /\ Interior(gp.p[j]) => gp.x[j] = gpinv(<<gp.p[j]>>, gp.k, gp.sigma)[1]

C12_Witness ==
    /\ op = "gpinv"
    /\ pc = "done"
    /\ RGt(gp.sigma, Zero)
    /\ RLt(gp.k, Zero)
    /\ Abs(gp.k[1]) * EpsInv < gp.k[2]
    /\ \E j, l \in DOMAIN gp.p :
          /\ gp.p[j] = One /\ IsFinite(gp.x[j])
          /\ Interior(gp.p[l]) /\ gp.x[l] # NaN

\* --------------------------------------------------------- claims on fit

\* the callers with the given model_code that found it not cached
NotCachedPath(c) ==
    {t \in DOMAIN calls :
        calls[t].model_code = c /\ calls[t].pc # "check" /\ calls[t].fit = None}

\* C13: the cache does not race: the membership check and the insertion
\* are atomic with respect to each other, so no two calls of fit with the
\* same model_code both take the not-cached path, and the model of a
\* model_code is compiled by at most one call of pystan.stan.
C13_CheckAndInsertAtomic ==
    \A c \in 1..MaxCodes :
        /\ Cardinality(NotCachedPath(c)) <= 1
        /\ Cardinality({j \in DOMAIN stan_calls :
               stan_calls[j].model_code = c /\ stan_calls[j].fit = None}) <= 1

====
